---- MODULE Spec2Model ----
(***************************************************************************)
(* A model of tornado_apns (src/apns.py): the big-endian integer codec,    *)
(* the incremental feedback parser of FeedbackConnection and the           *)
(* connection life cycle of APNsConnection on top of a tornado IOStream.   *)
(***************************************************************************)
EXTENDS Integers, Sequences, FiniteSets, TLC

(***************************************************************************)
(* Bounds of the model.                                                    *)
(***************************************************************************)
\* number of feedback records serialized on the wire
MaxRecords == 2
\* number of bytes tornado hands over in one streaming chunk
MaxChunk == 8
\* number of connect() calls that create a transport
MaxAttempts == 3
\* number of set_close_callback() calls
MaxRegistrations == 2
\* number of Frame.add_item() calls on one frame
MaxItems == 2
\* number of error responses read from the gateway
MaxResponses == 2

VARIABLES
    \* ---- FeedbackConnection ----
    wire,       \* the bytes the feedback service sends before it closes
    sent,       \* the records serialized on the wire (the wire may be cut)
    pos,        \* how many bytes of the wire were delivered so far
    buff,       \* FeedbackConnection.buff
    emitted,    \* the callback(token, fail_time_unix) invocations, in order
    chunks,     \* how many times _feedback_callback ran
    fclosed,    \* the final read_until_close callback ran
    \* ---- APNsConnection ----
    alive,      \* self._alive
    connecting, \* self._connecting
    stream,     \* self._stream: 0 is None, else the id of the transport
    sstate,     \* the state of every transport created so far
    connect_timeout, \* self._connect_timeout: 0 is None, else a timer id
    timers,     \* timers pending on the IOLoop
    firedFirst, \* attempts whose timer fired before their handshake ended
    connected_cb, \* per attempt: invocations of connect's callback
    closeReg,   \* per transport: a close callback is set on the stream
    closePending, \* per transport: the close callback is queued on the IOLoop
    close_cb,   \* invocations of the handler given to set_close_callback
    registered, \* how many times set_close_callback stored a handler
    op,         \* the operation that ran last
    raised,     \* the exception that escaped the operation that ran last
    \* ---- Frame ----
    frame_data, \* Frame.frame_data
    added,      \* the arguments of the add_item calls that returned
    fr_failed,  \* how many add_item calls raised
    fr_raised,  \* the exception the last add_item call raised
    fr_args,    \* the arguments of the last add_item call
    \* ---- GatewayConnection ----
    n_args,     \* the arguments of the last _get_notification call
    notification, \* the bytes the last _get_notification call returned
    n_raised,   \* the exception the last _get_notification call raised
    reads,      \* how many 6-byte responses read_bytes handed over
    read_data,  \* the last response read
    responses,  \* how many times receive_response's callback ran
    response,   \* the (status, seq) of its last invocation
    \* ---- APNs codec ----
    c_width,    \* the width in bits of the value packed
    c_value,    \* the value packed
    c_packed,   \* the packed form
    c_unpacked, \* the value unpacked from the packed form
    c_stage     \* "value", "packed" or "unpacked"

fvars == <<wire, sent, pos, buff, emitted, chunks, fclosed>>
cvars == <<alive, connecting, stream, sstate, connect_timeout, timers,
           firedFirst, connected_cb, closeReg, closePending, close_cb,
           registered, op, raised>>
frvars == <<frame_data, added, fr_failed, fr_raised, fr_args>>
gwvars == <<n_args, notification, n_raised, reads, read_data, responses, response>>
cdvars == <<c_width, c_value, c_packed, c_unpacked, c_stage>>
vars == <<wire, sent, pos, buff, emitted, chunks, fclosed,
          alive, connecting, stream, sstate, connect_timeout, timers,
          firedFirst, connected_cb, closeReg, closePending, close_cb,
          registered, op, raised,
          frame_data, added, fr_failed, fr_raised, fr_args,
          n_args, notification, n_raised, reads, read_data, responses, response,
          c_width, c_value, c_packed, c_unpacked, c_stage>>

(***************************************************************************)
(* APNs: the integer codec (struct.pack / struct.unpack, big-endian).      *)
(***************************************************************************)
packed_uchar(num) == <<num>>

unpacked_uchar(bytes) == bytes[1]

\* a pack in little-endian order (pack('<H', num))
packed_ushort_little_endian(num) == <<num % 256, num \div 256>>

packed_ushort_big_endian(num) == <<num \div 256, num % 256>>

unpacked_ushort_big_endian(bytes) == bytes[1] * 256 + bytes[2]

packed_uint_big_endian(num) ==
    <<num \div 16777216, (num \div 65536) % 256, (num \div 256) % 256, num % 256>>

unpacked_uint_big_endian(bytes) ==
    bytes[1] * 16777216 + bytes[2] * 65536 + bytes[3] * 256 + bytes[4]

(***************************************************************************)
(* binascii.b2a_hex: two lower-case hex digits per byte.                   *)
(***************************************************************************)
HexDigits == <<"0", "1", "2", "3", "4", "5", "6", "7",
               "8", "9", "a", "b", "c", "d", "e", "f">>

RECURSIVE b2a_hex(_)
b2a_hex(bytes) ==
    IF bytes = <<>> THEN <<>>
    ELSE <<HexDigits[(bytes[1] \div 16) + 1], HexDigits[(bytes[1] % 16) + 1]>>
         \o b2a_hex(Tail(bytes))

\* Python's s[a:b] for 0 <= a: the bytes at offsets a .. b-1 that exist
Slice(s, a, b) == SubSeq(s, a + 1, IF b < Len(s) THEN b ELSE Len(s))

(***************************************************************************)
(* FeedbackConnection._feedback_callback                                   *)
(***************************************************************************)
\* a parser that keeps only the newest chunk (self.buff = data)
BuffAppendForgetful(b, data) == data

\* self.buff += data
BuffAppend(b, data) == b \o data

\* while len(self.buff) > 6
LoopGuard(b) == Len(b) > 6

\* bytes_to_read = 6 + token_length
BytesToRead(b) == 6 + unpacked_ushort_big_endian(Slice(b, 4, 6))

\* a parser that does not wait for the announced token bytes
HasRecordUnchecked(b) == TRUE

\* if len(self.buff) >= bytes_to_read
HasRecord(b) == Len(b) >= BytesToRead(b)

\* callback(token, fail_time_unix)
RecordOf(b) ==
    [token |-> b2a_hex(Slice(b, 6, BytesToRead(b))),
     fail_time_unix |-> unpacked_uint_big_endian(Slice(b, 0, 4))]

\* a trim that takes one byte too many (self.buff[bytes_to_read + 1:])
BuffTrimOneMore(b) == Slice(b, BytesToRead(b) + 1, Len(b))

\* self.buff = self.buff[bytes_to_read:]
BuffTrim(b) == Slice(b, BytesToRead(b), Len(b))

RECURSIVE feedback_loop(_, _)
feedback_loop(b, out) ==
    IF LoopGuard(b) /\ HasRecord(b)
    THEN feedback_loop(BuffTrim(b), Append(out, RecordOf(b)))
    ELSE [buff |-> b, out |-> out]

feedback_callback(b, data) ==
    LET nb == BuffAppend(b, data)
    IN  IF Len(nb) < 6 THEN [buff |-> nb, out |-> <<>>]
        ELSE feedback_loop(nb, <<>>)

(***************************************************************************)
(* The feedback service: records serialized back to back.                  *)
(***************************************************************************)
Timestamps == {1, 16909060}
Tokens == {<<>>, <<171>>, <<1, 239>>}
Records == [time : Timestamps, token : Tokens]

WireOf(r) ==
    packed_uint_big_endian(r.time) \o packed_ushort_big_endian(Len(r.token))
    \o r.token

RECURSIVE Serialize(_)
Serialize(rs) == IF rs = <<>> THEN <<>> ELSE WireOf(Head(rs)) \o Serialize(Tail(rs))

RecordSeqs == UNION {[1..n -> Records] : n \in 0..MaxRecords}

NoArgs == [token_hex |-> <<>>, payload |-> <<>>, identifier |-> 0, expiry |-> 0,
           priority |-> 0]

InitFrameVars ==
    /\ frame_data = <<>>
    /\ added = <<>>
    /\ fr_failed = 0
    /\ fr_raised = "none"
    /\ fr_args = NoArgs

InitGatewayVars ==
    /\ n_args = NoArgs
    /\ notification = <<>>
    /\ n_raised = "none"
    /\ reads = 0
    /\ read_data = <<>>
    /\ responses = 0
    /\ response = [status |-> 0, seq |-> 0]

InitCodecVars ==
    /\ c_width = 8
    /\ c_value = 0
    /\ c_packed = <<>>
    /\ c_unpacked = 0
    /\ c_stage = "value"

InitConnVars ==
    /\ alive = FALSE
    /\ connecting = FALSE
    /\ stream = 0
    /\ sstate = [s \in 1..MaxAttempts |-> "unused"]
    /\ connect_timeout = 0
    /\ timers = {}
    /\ firedFirst = {}
    /\ connected_cb = [s \in 1..MaxAttempts |-> 0]
    /\ closeReg = [s \in 1..MaxAttempts |-> FALSE]
    /\ closePending = [s \in 1..MaxAttempts |-> FALSE]
    /\ close_cb = 0
    /\ registered = 0
    /\ op = "init"
    /\ raised = "none"

InitFeedback ==
    /\ sent \in RecordSeqs
    /\ \E cut \in 0..Len(Serialize(sent)) : wire = SubSeq(Serialize(sent), 1, cut)
    /\ pos = 0
    /\ buff = <<>>
    /\ emitted = <<>>
    /\ chunks = 0
    /\ fclosed = FALSE
    /\ InitConnVars
    /\ InitFrameVars
    /\ InitGatewayVars
    /\ InitCodecVars

\* tornado's streaming callback: the next bytes of the wire reach the parser
StreamChunk ==
    /\ ~fclosed
    /\ \E n \in 1..MaxChunk :
        /\ pos + n <= Len(wire)
        /\ LET r == feedback_callback(buff, SubSeq(wire, pos + 1, pos + n))
           IN  /\ buff' = r.buff
               /\ emitted' = emitted \o r.out
        /\ pos' = pos + n
    /\ chunks' = chunks + 1
    /\ UNCHANGED <<wire, sent, fclosed>>
    /\ UNCHANGED cvars
    /\ UNCHANGED <<frvars, gwvars, cdvars>>

\* tornado's final callback of read_until_close: the bytes not yet streamed
\* (none, or all that remains) reach the parser as the stream closes
StreamEnd ==
    /\ ~fclosed
    /\ LET r == feedback_callback(buff, SubSeq(wire, pos + 1, Len(wire)))
       IN  /\ buff' = r.buff
           /\ emitted' = emitted \o r.out
    /\ pos' = Len(wire)
    /\ chunks' = chunks + 1
    /\ fclosed' = TRUE
    /\ UNCHANGED <<wire, sent>>
    /\ UNCHANGED cvars
    /\ UNCHANGED <<frvars, gwvars, cdvars>>

NextFeedback == StreamChunk \/ StreamEnd

SpecFeedback == InitFeedback /\ [][NextFeedback]_vars

(***************************************************************************)
(* tornado.iostream: what close() does to a stream.  The file descriptor   *)
(* leaves the IOLoop, so a pending connect callback never runs, and the    *)
(* close callback, when one is set, is queued once and cleared.            *)
(***************************************************************************)
Open(s) == sstate[s] \in {"connecting", "open"}

StreamClose(s) ==
    /\ sstate' = [sstate EXCEPT ![s] = "closed"]
    /\ closePending' = [closePending EXCEPT ![s] = closePending[s] \/ closeReg[s]]
    /\ closeReg' = [closeReg EXCEPT ![s] = FALSE]

(***************************************************************************)
(* APNsConnection                                                          *)
(***************************************************************************)
\* the transport a connect() call creates: the first one not yet used
NewStream == CHOOSE s \in 1..MaxAttempts :
                 sstate[s] = "unused" /\ \A t \in 1..(s - 1) : sstate[t] # "unused"

\* if not self._connecting
ConnectGuard == ~connecting

\* connect(callback)
Connect ==
    /\ op' = "connect"
    /\ raised' = "none"
    /\ IF ConnectGuard
       THEN /\ \E s \in 1..MaxAttempts : sstate[s] = "unused"
            /\ connecting' = TRUE
            /\ connect_timeout' = NewStream
            /\ timers' = timers \cup {NewStream}
            /\ stream' = NewStream
            /\ sstate' = [sstate EXCEPT ![NewStream] = "connecting"]
       ELSE UNCHANGED <<connecting, connect_timeout, timers, stream, sstate>>
    /\ UNCHANGED <<alive, firedFirst, connected_cb, closeReg, closePending,
                   close_cb, registered>>
    /\ UNCHANGED fvars
    /\ UNCHANGED <<frvars, gwvars, cdvars>>

\* a timeout callback with the test inverted (if self.is_alive())
TimeoutTearsDownInverted == alive

\* if not self.is_alive()
TimeoutTearsDown == ~alive

\* the exception _connecting_timeout_callback raises
TimeoutError == "ConnectionError"

\* _connecting_timeout_callback(), run by the IOLoop when timer t is due
ConnectingTimeoutCallback(t) ==
    /\ t \in timers
    /\ op' = "connecting_timeout_callback"
    /\ timers' = timers \ {t}
    /\ firedFirst' = IF connected_cb[t] = 0 THEN firedFirst \cup {t} ELSE firedFirst
    /\ connecting' = FALSE
    /\ IF TimeoutTearsDown
       THEN /\ alive' = FALSE
            /\ StreamClose(stream)
            /\ raised' = TimeoutError
       ELSE /\ raised' = "none"
            /\ UNCHANGED <<alive, sstate, closePending, closeReg>>
    /\ UNCHANGED <<stream, connect_timeout, connected_cb, close_cb, registered>>
    /\ UNCHANGED fvars
    /\ UNCHANGED <<frvars, gwvars, cdvars>>

\* an _on_connected that leaves the timer on the IOLoop
TimersAfterConnectedKept == timers

\* ioloop.IOLoop.instance().remove_timeout(self._connect_timeout)
TimersAfterConnected == timers \ {connect_timeout}

\* _on_connected(callback), run by the IOLoop when the handshake of the
\* transport s ends
OnConnected(s) ==
    /\ sstate[s] = "connecting"
    /\ op' = "on_connected"
    /\ raised' = "none"
    /\ sstate' = [sstate EXCEPT ![s] = "open"]
    /\ timers' = TimersAfterConnected
    /\ alive' = TRUE
    /\ connecting' = FALSE
    /\ connected_cb' = [connected_cb EXCEPT ![s] = @ + 1]
    /\ UNCHANGED <<stream, connect_timeout, firedFirst, closeReg, closePending,
                   close_cb, registered>>
    /\ UNCHANGED fvars
    /\ UNCHANGED <<frvars, gwvars, cdvars>>

\* disconnect(): self._alive = False, then self._stream.close(), which is an
\* AttributeError when self._stream is None
Disconnect ==
    /\ op' = "disconnect"
    /\ alive' = FALSE
    /\ IF stream = 0
       THEN /\ raised' = "AttributeError"
            /\ UNCHANGED <<sstate, closePending, closeReg>>
       ELSE /\ raised' = "none"
            /\ StreamClose(stream)
    /\ UNCHANGED <<connecting, stream, connect_timeout, timers, firedFirst,
                   connected_cb, close_cb, registered>>
    /\ UNCHANGED fvars
    /\ UNCHANGED <<frvars, gwvars, cdvars>>

\* set_close_callback(callback): on a stream that is closed already tornado
\* either queues the callback at once or keeps it until the next close()
SetCloseCallback ==
    /\ registered < MaxRegistrations
    /\ op' = "set_close_callback"
    /\ registered' = registered + 1
    /\ IF stream = 0
       THEN /\ raised' = "AttributeError"
            /\ UNCHANGED <<closeReg, closePending>>
       ELSE /\ raised' = "none"
            /\ \/ /\ closeReg' = [closeReg EXCEPT ![stream] = TRUE]
                  /\ UNCHANGED closePending
               \/ /\ sstate[stream] = "closed"
                  /\ closePending' = [closePending EXCEPT ![stream] = TRUE]
                  /\ UNCHANGED closeReg
    /\ UNCHANGED <<alive, connecting, stream, sstate, connect_timeout, timers,
                   firedFirst, connected_cb, close_cb>>
    /\ UNCHANGED fvars
    /\ UNCHANGED <<frvars, gwvars, cdvars>>

\* _stream_close_callback(), run by the IOLoop for the closed transport s
StreamCloseCallback(s) ==
    /\ closePending[s]
    /\ op' = "stream_close_callback"
    /\ raised' = "none"
    /\ closePending' = [closePending EXCEPT ![s] = FALSE]
    /\ alive' = FALSE
    /\ close_cb' = close_cb + 1
    /\ UNCHANGED <<connecting, stream, sstate, connect_timeout, timers,
                   firedFirst, connected_cb, closeReg, registered>>
    /\ UNCHANGED fvars
    /\ UNCHANGED <<frvars, gwvars, cdvars>>

\* read(n, callback), read_till_close(callback), write(string, callback):
\* the stream call fails with AttributeError on None and with IOError on a
\* closed stream; the handler calls disconnect() and raises ConnectionError
IoCalls == {"read", "read_till_close", "write"}

IoCall(call) ==
    /\ op' = call
    /\ IF stream = 0
       THEN /\ alive' = FALSE
            /\ raised' = "AttributeError"
            /\ UNCHANGED <<sstate, closePending, closeReg>>
       ELSE IF sstate[stream] = "closed"
       THEN /\ alive' = FALSE
            /\ StreamClose(stream)
            /\ raised' = "ConnectionError"
       ELSE /\ raised' = "none"
            /\ UNCHANGED <<alive, sstate, closePending, closeReg>>
    /\ UNCHANGED <<connecting, stream, connect_timeout, timers, firedFirst,
                   connected_cb, close_cb, registered>>
    /\ UNCHANGED fvars
    /\ UNCHANGED <<frvars, gwvars, cdvars>>

\* the peer closes or refuses the transport s: tornado closes the stream
RemoteClose(s) ==
    /\ Open(s)
    /\ op' = "remote_close"
    /\ raised' = "none"
    /\ StreamClose(s)
    /\ UNCHANGED <<alive, connecting, stream, connect_timeout, timers,
                   firedFirst, connected_cb, close_cb, registered>>
    /\ UNCHANGED fvars
    /\ UNCHANGED <<frvars, gwvars, cdvars>>

InitConn ==
    /\ wire = <<>>
    /\ sent = <<>>
    /\ pos = 0
    /\ buff = <<>>
    /\ emitted = <<>>
    /\ chunks = 0
    /\ fclosed = FALSE
    /\ InitConnVars
    /\ InitFrameVars
    /\ InitGatewayVars
    /\ InitCodecVars

NextConn ==
    \/ Connect
    \/ \E t \in 1..MaxAttempts : ConnectingTimeoutCallback(t)
    \/ \E s \in 1..MaxAttempts : OnConnected(s)
    \/ Disconnect
    \/ SetCloseCallback
    \/ \E s \in 1..MaxAttempts : StreamCloseCallback(s)
    \/ \E call \in IoCalls : IoCall(call)
    \/ \E s \in 1..MaxAttempts : RemoteClose(s)

SpecConn == InitConn /\ [][NextConn]_vars

(***************************************************************************)
(* binascii.a2b_hex: fails (TypeError) on a string of odd length or with a *)
(* character that is no hex digit; both letter cases are accepted.         *)
(***************************************************************************)
HexUpper == <<"0", "1", "2", "3", "4", "5", "6", "7",
              "8", "9", "A", "B", "C", "D", "E", "F">>

IsHexChar(c) == \E i \in 1..16 : HexDigits[i] = c \/ HexUpper[i] = c

HexValue(c) == (CHOOSE i \in 1..16 : HexDigits[i] = c \/ HexUpper[i] = c) - 1

a2b_ok(hex) == Len(hex) % 2 = 0 /\ \A i \in 1..Len(hex) : IsHexChar(hex[i])

a2b_hex(hex) ==
    [i \in 1..(Len(hex) \div 2) |-> 16 * HexValue(hex[2 * i - 1]) + HexValue(hex[2 * i])]

\* Python's index arithmetic of a slice bound i on a sequence of length n
PyBound(n, i) == IF i < 0 THEN (IF n + i < 0 THEN 0 ELSE n + i)
                 ELSE (IF i > n THEN n ELSE i)

\* Python's s[a:b] = v on a bytearray
SliceAssign(s, a, b, v) ==
    LET start == PyBound(Len(s), a)
        stop == IF PyBound(Len(s), b) < start THEN start ELSE PyBound(Len(s), b)
    IN  SubSeq(s, 1, start) \o v \o SubSeq(s, stop + 1, Len(s))

(***************************************************************************)
(* GatewayConnection._get_notification                                     *)
(***************************************************************************)
MAX_PAYLOAD_LENGTH == 2048

\* _get_notification has no test on the payload: every length is framed
PayloadAccepted(payload) == TRUE

\* try: a2b_hex(token_hex) except TypeError
TokenRejected(token_hex) == ~a2b_ok(token_hex)

\* a layout with the expiry ahead of the identifier
NotificationHeadSwapped(identifier, expiry) ==
    <<1>> \o packed_uint_big_endian(expiry) \o packed_uint_big_endian(identifier)

\* '\1' + identifier_bin + expiry
NotificationHead(identifier, expiry) ==
    <<1>> \o packed_uint_big_endian(identifier) \o packed_uint_big_endian(expiry)

get_notification(identifier, expiry, token_hex, payload) ==
    IF TokenRejected(token_hex)
    THEN [bytes |-> <<>>, raised |-> "TokenLengthOddError"]
    ELSE IF ~PayloadAccepted(payload)
    THEN [bytes |-> <<>>, raised |-> "PayloadTooLargeError"]
    ELSE [bytes |-> NotificationHead(identifier, expiry)
                    \o packed_ushort_big_endian(Len(a2b_hex(token_hex)))
                    \o a2b_hex(token_hex)
                    \o packed_ushort_big_endian(Len(payload)) \o payload,
          raised |-> "none"]

\* the callers of both framers: tokens that decode, a token of odd length
\* and a token with a character that is no hex digit
TokenHexes == {<<"a", "b">>, <<"0", "1", "E", "f">>, <<"a", "b", "c">>, <<"z", "z">>}
Identifiers == {1, 16909060}
Expiries == {0, 2147483647}

\* the callers of _get_notification: the payloads include one that is one
\* byte over MAX_PAYLOAD_LENGTH
OversizePayload == [i \in 1..(MAX_PAYLOAD_LENGTH + 1) |-> 97]
NotificationArgs ==
    [token_hex : TokenHexes, payload : {<<123, 125>>, OversizePayload},
     identifier : Identifiers, expiry : Expiries, priority : {0}]

GetNotification ==
    /\ \E a \in NotificationArgs :
          LET r == get_notification(a.identifier, a.expiry, a.token_hex, a.payload)
          IN  /\ n_args' = a
              /\ notification' = r.bytes
              /\ n_raised' = r.raised
    /\ UNCHANGED <<reads, read_data, responses, response>>
    /\ UNCHANGED <<fvars, cvars, frvars, cdvars>>

(***************************************************************************)
(* GatewayConnection.receive_response                                      *)
(***************************************************************************)
\* a decoder that takes the status from the command byte
ResponseStatusFromCommand(data) == unpacked_uchar(Slice(data, 0, 1))

\* status = APNs.unpacked_uchar(data[1])
ResponseStatus(data) == unpacked_uchar(Slice(data, 1, 2))

\* seq = APNs.unpacked_uint_big_endian(data[2:6])
ResponseSeq(data) == unpacked_uint_big_endian(Slice(data, 2, 6))

\* _read_response_call(callback, data): callback(status, seq)
read_response_call(data) == [status |-> ResponseStatus(data), seq |-> ResponseSeq(data)]

\* the 6 bytes the gateway sends: command, status, identifier
ResponseDatas ==
    {<<c, st>> \o id : c \in {8, 0, 255}, st \in {0, 1, 8, 255},
                       id \in {<<0, 0, 0, 5>>, <<1, 2, 3, 4>>, <<127, 255, 255, 255>>}}

\* receive_response(callback) and the read of 6 bytes that completes it
ReceiveResponse ==
    /\ reads < MaxResponses
    /\ \E data \in ResponseDatas :
          /\ reads' = reads + 1
          /\ read_data' = data
          /\ responses' = responses + 1
          /\ response' = read_response_call(data)
    /\ UNCHANGED <<n_args, notification, n_raised>>
    /\ UNCHANGED <<fvars, cvars, frvars, cdvars>>

InitGateway ==
    /\ wire = <<>>
    /\ sent = <<>>
    /\ pos = 0
    /\ buff = <<>>
    /\ emitted = <<>>
    /\ chunks = 0
    /\ fclosed = FALSE
    /\ InitConnVars
    /\ InitFrameVars
    /\ InitGatewayVars
    /\ InitCodecVars

NextGateway == GetNotification \/ ReceiveResponse

SpecGateway == InitGateway /\ [][NextGateway]_vars

(***************************************************************************)
(* Frame.add_item                                                          *)
(***************************************************************************)
\* a tag / length / value item: '\t' + packed_ushort(len(value)) + value
Item(tag, value) == <<tag>> \o packed_ushort_big_endian(Len(value)) \o value

\* a patch that always lands on the first record of the frame
PatchAtFront(item_len) == <<1, 5>>

\* self.frame_data[-item_len-4:-item_len]
PatchAt(item_len) == <<(0 - item_len) - 4, 0 - item_len>>

\* a length that counts the record's own tag and length field
LengthFieldWithHeader(item_len) == packed_uint_big_endian(item_len + 5)

\* APNs.packed_uint_big_endian(item_len)
LengthField(item_len) == packed_uint_big_endian(item_len)

\* the frame a failed call leaves: the record header is appended before the
\* token is decoded
FrameOnError(frame) == frame \o <<2>> \o packed_uint_big_endian(0)

add_item(frame, token_hex, payload, identifier, expiry, priority) ==
    IF TokenRejected(token_hex)
    THEN [frame |-> FrameOnError(frame), raised |-> "TokenLengthOddError"]
    ELSE LET f0 == frame \o <<2>> \o packed_uint_big_endian(0)
             token_item == Item(1, a2b_hex(token_hex))
             payload_item == Item(2, payload)
             identifier_item == Item(3, packed_uint_big_endian(identifier))
             expiry_item == Item(4, packed_uint_big_endian(expiry))
             priority_item == Item(5, packed_uchar(priority))
             item_len == Len(token_item) + Len(payload_item) + Len(identifier_item)
                         + Len(expiry_item) + Len(priority_item)
             f5 == f0 \o token_item \o payload_item \o identifier_item
                      \o expiry_item \o priority_item
         IN  [frame |-> SliceAssign(f5, PatchAt(item_len)[1], PatchAt(item_len)[2],
                                    LengthField(item_len)),
              raised |-> "none"]

\* the callers of add_item: a short payload and one whose length needs both
\* bytes of the length field
LongPayload == [i \in 1..300 |-> 97]
Payloads == {<<123, 125>>, LongPayload}
Priorities == {5, 10}
\* identifier, expiry and priority vary together
FrameArgs ==
    {a \in [token_hex : TokenHexes, payload : Payloads, identifier : Identifiers,
            expiry : Expiries, priority : Priorities] :
        (a.identifier = 1) = (a.expiry = 0) /\ (a.expiry = 0) = (a.priority = 5)}

AddItem ==
    /\ Len(added) + fr_failed < MaxItems
    /\ \E a \in FrameArgs :
          LET r == add_item(frame_data, a.token_hex, a.payload, a.identifier,
                            a.expiry, a.priority)
          IN  /\ frame_data' = r.frame
              /\ fr_raised' = r.raised
              /\ fr_args' = a
              /\ added' = IF r.raised = "none" THEN Append(added, a) ELSE added
              /\ fr_failed' = IF r.raised = "none" THEN fr_failed ELSE fr_failed + 1
    /\ UNCHANGED <<fvars, cvars, gwvars, cdvars>>

InitFrame ==
    /\ wire = <<>>
    /\ sent = <<>>
    /\ pos = 0
    /\ buff = <<>>
    /\ emitted = <<>>
    /\ chunks = 0
    /\ fclosed = FALSE
    /\ InitConnVars
    /\ InitFrameVars
    /\ InitGatewayVars
    /\ InitCodecVars

NextFrame == AddItem

SpecFrame == InitFrame /\ [][NextFrame]_vars

\* both framers side by side
NextFramers == AddItem \/ GetNotification

SpecFramers == InitFrame /\ [][NextFramers]_vars

(***************************************************************************)
(* The codec on its own: a value of each width is packed, then unpacked.   *)
(* The 32-bit values stop at 2^31 - 1, the largest integer of the checker. *)
(***************************************************************************)
UcharValues == 0..255
UshortValues == {0, 1, 255, 256, 257, 4660, 32768, 65280, 65535}
UintValues == {0, 1, 255, 256, 65535, 65536, 16777215, 16777216, 16909060,
               2147483647}

CodecValues(width) ==
    CASE width = 8 -> UcharValues
      [] width = 16 -> UshortValues
      [] width = 32 -> UintValues

InitCodec ==
    /\ wire = <<>>
    /\ sent = <<>>
    /\ pos = 0
    /\ buff = <<>>
    /\ emitted = <<>>
    /\ chunks = 0
    /\ fclosed = FALSE
    /\ InitConnVars
    /\ InitFrameVars
    /\ InitGatewayVars
    /\ c_width \in {8, 16, 32}
    /\ c_value \in CodecValues(c_width)
    /\ c_packed = <<>>
    /\ c_unpacked = 0
    /\ c_stage = "value"

\* APNs.packed_uchar / packed_ushort_big_endian / packed_uint_big_endian
Pack ==
    /\ c_stage = "value"
    /\ c_packed' = CASE c_width = 8 -> packed_uchar(c_value)
                     [] c_width = 16 -> packed_ushort_big_endian(c_value)
                     [] c_width = 32 -> packed_uint_big_endian(c_value)
    /\ c_stage' = "packed"
    /\ UNCHANGED <<c_width, c_value, c_unpacked>>
    /\ UNCHANGED <<fvars, cvars, frvars, gwvars>>

\* APNs.unpacked_uchar / unpacked_ushort_big_endian / unpacked_uint_big_endian
Unpack ==
    /\ c_stage = "packed"
    /\ c_unpacked' = CASE c_width = 8 -> unpacked_uchar(c_packed)
                       [] c_width = 16 -> unpacked_ushort_big_endian(c_packed)
                       [] c_width = 32 -> unpacked_uint_big_endian(c_packed)
    /\ c_stage' = "unpacked"
    /\ UNCHANGED <<c_width, c_value, c_packed>>
    /\ UNCHANGED <<fvars, cvars, frvars, gwvars>>

NextCodec == Pack \/ Unpack

SpecCodec == InitCodec /\ [][NextCodec]_vars

(***************************************************************************)
(* Properties of the feedback parser.                                      *)
(***************************************************************************)
\* the callback invocations a wire of complete records should give
Expected(rs) ==
    [i \in 1..Len(rs) |-> [token |-> b2a_hex(rs[i].token), fail_time_unix |-> rs[i].time]]

\* the wire holds complete records only
WireComplete == wire = Serialize(sent)

\* how many records of the wire lie wholly within its first n bytes
CompleteIn(n) ==
    Cardinality({i \in 1..Len(sent) : Len(Serialize(SubSeq(sent, 1, i))) <= n})

\* C1: once every chunk of a wire of complete records was fed, whatever the
\* chunking, the callback invocations are those of feeding the whole wire to
\* a fresh parser in one call
C1_ChunkingInvariance ==
    (WireComplete /\ pos = Len(wire))
        => emitted = feedback_callback(<<>>, wire).out

\* C1 witness: two records were fed in at least four chunks and both came out
C1_Witness ==
    /\ WireComplete /\ pos = Len(wire) /\ Len(sent) = 2
    /\ chunks >= 4 /\ Len(emitted) = 2

\* C2: once all bytes of N complete records were fed and the stream ended,
\* exactly the N records were emitted, in order (the code fails this)
C2_Completeness ==
    (WireComplete /\ fclosed) => emitted = Expected(sent)

\* C3: every emitted record is a record that was wholly delivered: the
\* emitted records are the first records of the wire and are never more than
\* the records complete in the delivered bytes; six bytes announcing a
\* non-empty token followed by the end of the stream give no record
C3_NoPartialRecord ==
    /\ Len(emitted) <= CompleteIn(pos)
    /\ emitted = SubSeq(Expected(sent), 1, Len(emitted))
    /\ (fclosed /\ Len(wire) = 6 /\ unpacked_ushort_big_endian(Slice(wire, 4, 6)) > 0)
           => emitted = <<>>

\* C3 witness: the stream ended after six bytes announcing a non-empty token
C3_Witness ==
    /\ fclosed /\ Len(wire) = 6 /\ Len(buff) = 6
    /\ unpacked_ushort_big_endian(Slice(wire, 4, 6)) > 0
    /\ emitted = <<>>

(***************************************************************************)
(* Properties of the connection life cycle.                                *)
(***************************************************************************)
Disconnected == ~alive /\ ~connecting
Connecting == connecting
Connected == alive /\ ~connecting

\* the transport the connection holds is closed
TransportClosed == stream # 0 /\ sstate[stream] = "closed"

\* the timers that fire in this step
Firing == timers \ timers'

\* this step is the timeout of an attempt whose handshake has not completed
TimeoutBeforeHandshake ==
    /\ op' = "connecting_timeout_callback"
    /\ \E t \in Firing : connected_cb[t] = 0

C5_LateHandshakeDiscarded ==
    /\ [](\A s \in firedFirst : connected_cb[s] = 0)
    /\ [][\A s \in firedFirst :
             (sstate[s] = "connecting" /\ sstate'[s] = "open") => ~alive']_vars

\* C6: when the handshake of an attempt completes before its timer fired,
\* the connection becomes Connected, the attempt's timer is no longer
\* pending (then and ever after) and the success callback ran exactly once
C6_HandshakeSuccess ==
    /\ [][\A s \in 1..MaxAttempts :
             (sstate[s] = "connecting" /\ sstate'[s] = "open" /\ s \notin firedFirst)
                 => (Connected' /\ s \notin timers' /\ connected_cb'[s] = 1)]_vars
    /\ [](\A s \in 1..MaxAttempts :
             (connected_cb[s] > 0 /\ s \notin firedFirst)
                 => (s \notin timers /\ connected_cb[s] = 1))

\* C6 witness: a handshake has just completed with its timer not yet fired
C6_Witness ==
    /\ op = "on_connected" /\ Connected
    /\ \E s \in 1..MaxAttempts :
          connected_cb[s] = 1 /\ s \notin firedFirst /\ s \notin timers
                              /\ sstate[s] = "open"

\* C7: read, read_till_close and write called in a state other than
\* Connected leave the connection Disconnected with the transport closed
\* and fail with ConnectionError and nothing else (the code fails this)
C7_IoOnDeadConnection ==
    [][(op' \in IoCalls /\ ~Connected) =>
          (Disconnected' /\ TransportClosed' /\ raised' = "ConnectionError")]_vars

\* C8: disconnect() succeeds in every state, closes the transport and leaves
\* the connection Disconnected, and a second call changes nothing (the code
\* fails this)
C8_DisconnectIdempotent ==
    [][op' = "disconnect" =>
          /\ raised' = "none" /\ Disconnected' /\ TransportClosed'
          /\ op = "disconnect" =>
                UNCHANGED <<alive, connecting, stream, sstate>>]_vars

\* C9: the handler given to set_close_callback runs at most once per
\* registration, and when it runs the connection is Disconnected (the code
\* fails this)
C9_CloseNotification ==
    /\ [](close_cb <= registered)
    /\ [][op' = "stream_close_callback" => Disconnected']_vars

\* C10: connect() called while Connecting or Connected creates no transport,
\* starts no timer and leaves the state unchanged; called in Disconnected it
\* moves to Connecting and starts a timer (the code fails this)
C10_ConnectOnlyFromDisconnected ==
    [][op' = "connect" =>
          /\ (connecting \/ alive) =>
                UNCHANGED <<alive, connecting, stream, sstate, timers, connect_timeout>>
          /\ Disconnected =>
                (connecting' /\ ~alive' /\ stream' # stream /\ timers' # timers)]_vars

(***************************************************************************)
(* Properties of the frame builder.                                        *)
(***************************************************************************)
\* the offset after the items tagged tag .. 5 that start at offset off of f,
\* or -1 when the bytes there are not such items
RECURSIVE WalkItems(_, _, _)
WalkItems(f, off, tag) ==
    IF tag > 5 THEN off
    ELSE IF off + 3 > Len(f) \/ f[off + 1] # tag THEN -1
    ELSE LET end == off + 3 + (f[off + 2] * 256 + f[off + 3])
         IN  IF end > Len(f) THEN -1 ELSE WalkItems(f, end, tag + 1)

\* the number of record blocks from offset off of f when f is a sequence of
\* blocks (tag 2, 4-byte length, five items) whose length field is the byte
\* length of the five items that follow it; -1 when it is not
RECURSIVE WellFormedRecords(_, _)
WellFormedRecords(f, off) ==
    IF off = Len(f) THEN 0
    ELSE IF off + 5 > Len(f) \/ f[off + 1] # 2 THEN -1
    ELSE LET end == WalkItems(f, off + 5, 1)
             field == f[off + 2] * 16777216 + f[off + 3] * 65536
                      + f[off + 4] * 256 + f[off + 5]
         IN  IF end = -1 \/ field # end - (off + 5) THEN -1
             ELSE LET rest == WellFormedRecords(f, end)
                  IN  IF rest = -1 THEN -1 ELSE rest + 1

\* C11: after successful add_item calls only, the frame is a sequence of
\* record blocks, one per call, and the length field of every block is the
\* combined byte length of the block's five items
C11_RecordLength ==
    fr_failed = 0 => WellFormedRecords(frame_data, 0) = Len(added)

\* C11 witness: two records were added, one with the long payload
C11_Witness ==
    /\ fr_failed = 0 /\ Len(added) = 2
    /\ added[1].payload = LongPayload /\ added[2].payload # LongPayload
    /\ WellFormedRecords(frame_data, 0) = 2

\* the record block of one add_item call, byte by byte
ExpectedBlock(a) ==
    LET token == a2b_hex(a.token_hex)
        total == (3 + Len(token)) + (3 + Len(a.payload)) + 7 + 7 + 4
        be32(n) == <<n \div 16777216, (n \div 65536) % 256, (n \div 256) % 256, n % 256>>
        be16(n) == <<n \div 256, n % 256>>
    IN  <<2>> \o be32(total)
        \o <<1>> \o be16(Len(token)) \o token
        \o <<2>> \o be16(Len(a.payload)) \o a.payload
        \o <<3, 0, 4>> \o be32(a.identifier)
        \o <<4, 0, 4>> \o be32(a.expiry)
        \o <<5, 0, 1, a.priority>>

RECURSIVE ExpectedFrame(_)
ExpectedFrame(as) ==
    IF as = <<>> THEN <<>> ELSE ExpectedBlock(Head(as)) \o ExpectedFrame(Tail(as))

\* C12: every successful add_item appends exactly the record block of its
\* arguments and changes no byte before it, and a frame built by successful
\* calls only is the concatenation of the calls' blocks in call order
C12_AppendOnly ==
    /\ [][Len(added') = Len(added) + 1 =>
             frame_data' = frame_data \o ExpectedBlock(added'[Len(added')])]_vars
    /\ [](fr_failed = 0 => frame_data = ExpectedFrame(added))

\* C12 witness: a second record was appended behind a first one
C12_Witness ==
    /\ fr_failed = 0 /\ Len(added) = 2 /\ added[1] # added[2]
    /\ frame_data = ExpectedBlock(added[1]) \o ExpectedBlock(added[2])

\* C17: an add_item call that fails leaves frame_data as it was, and the
\* frame holds well-formed record blocks only (the code fails this)
C17_FailedAddLeavesFrame ==
    /\ [][fr_failed' > fr_failed => frame_data' = frame_data]_vars
    /\ [](WellFormedRecords(frame_data, 0) # -1)

\* the token is malformed: odd length, or a character that is no hex digit
Malformed(token_hex) ==
    \/ Len(token_hex) % 2 = 1
    \/ \E i \in 1..Len(token_hex) :
          token_hex[i] \notin {"0", "1", "2", "3", "4", "5", "6", "7", "8", "9",
                               "a", "b", "c", "d", "e", "f",
                               "A", "B", "C", "D", "E", "F"}

\* C13: both framers fail with TokenLengthOddError on every malformed token
\* and produce no bytes then: _get_notification returns nothing and
\* add_item adds nothing to the frame (the code fails this for add_item)
C13_MalformedToken ==
    /\ [](Malformed(n_args.token_hex) =>
             (n_raised = "TokenLengthOddError" /\ notification = <<>>))
    /\ [](Malformed(fr_args.token_hex) => fr_raised = "TokenLengthOddError")
    /\ [][(Len(added') + fr_failed' > Len(added) + fr_failed
             /\ Malformed(fr_args'.token_hex)) => frame_data' = frame_data]_vars

(***************************************************************************)
(* Properties of the gateway connection.                                   *)
(***************************************************************************)
\* C14: for every token that decodes, _get_notification returns command
\* byte 1, the identifier and the expiry as 4 big-endian bytes each, the
\* token's byte length as 2 big-endian bytes, the token bytes, the payload
\* length as 2 big-endian bytes and the payload, and nothing else, whatever
\* the payload length
C14_LegacyLayout ==
    (n_args # NoArgs /\ ~Malformed(n_args.token_hex)) =>
        LET n == notification
            t == Len(n_args.token_hex) \div 2
            p == Len(n_args.payload)
        IN  /\ n_raised = "none"
            /\ Len(n) = 1 + 4 + 4 + 2 + t + 2 + p
            /\ n[1] = 1
            /\ n[2] * 16777216 + n[3] * 65536 + n[4] * 256 + n[5] = n_args.identifier
            /\ n[6] * 16777216 + n[7] * 65536 + n[8] * 256 + n[9] = n_args.expiry
            /\ n[10] * 256 + n[11] = t
            /\ b2a_hex(SubSeq(n, 12, 11 + t))
                 = [i \in 1..(2 * t) |->
                       IF n_args.token_hex[i] = "E" THEN "e" ELSE n_args.token_hex[i]]
            /\ n[12 + t] * 256 + n[13 + t] = p
            /\ SubSeq(n, 14 + t, Len(n)) = n_args.payload

\* C14 witness: a payload over MAX_PAYLOAD_LENGTH was framed
C14_Witness ==
    /\ n_raised = "none" /\ Len(n_args.payload) > MAX_PAYLOAD_LENGTH
    /\ n_args.token_hex = <<"0", "1", "E", "f">> /\ n_args.identifier = 16909060
    /\ SubSeq(notification, 1, 15) = <<1, 1, 2, 3, 4, 0, 0, 0, 0, 0, 2, 1, 239, 8, 1>>

\* C15: the callback of receive_response gets byte 1 as the status and bytes
\* 2..5 as a big-endian identifier, whatever byte 0 is, once per response
C15_ResponseDecode ==
    /\ responses = reads
    /\ reads > 0 =>
          /\ response.status = read_data[2]
          /\ response.seq = read_data[3] * 16777216 + read_data[4] * 65536
                            + read_data[5] * 256 + read_data[6]

\* C15 witness: the second response read, 08 01 00 00 00 05, gave status 1
\* and identifier 5
C15_Witness ==
    /\ reads = 2 /\ responses = 2
    /\ read_data = <<8, 1, 0, 0, 0, 5>>
    /\ response = [status |-> 1, seq |-> 5]

(***************************************************************************)
(* Properties of the codec.                                                *)
(***************************************************************************)
\* C16: the packed form of a value of 8, 16 or 32 bits has 1, 2 or 4 bytes,
\* and unpacking it gives the value back
C16_RoundTrip ==
    /\ c_stage # "value" =>
          /\ Len(c_packed) = c_width \div 8
          /\ \A i \in 1..Len(c_packed) : c_packed[i] \in 0..255
    /\ c_stage = "unpacked" => c_unpacked = c_value

\* C16 witness: a 16-bit value with two different bytes made the round trip
C16_Witness ==
    /\ c_stage = "unpacked" /\ c_width = 16 /\ c_value = 4660
    /\ c_packed = <<18, 52>> /\ c_unpacked = 4660

(***************************************************************************)
(* Further properties of the connection life cycle and of the parser.      *)
(***************************************************************************)
\* C18: is_alive() and is_connecting() are never both true (the code fails
\* this)
C18_OneLifecycleState == ~(alive /\ connecting)

\* C19: a disconnect() during a connect attempt ends the attempt:
\* is_connecting() is false afterwards and no timeout timer stays pending
\* (the code fails this)
C19_DisconnectEndsAttempt ==
    [][(op' = "disconnect" /\ connecting) => (~connecting' /\ timers' = {})]_vars

\* the wire encoding of the emitted records: timestamp, token length, token
RECURSIVE EncodeEmitted(_)
EncodeEmitted(es) ==
    IF es = <<>> THEN <<>>
    ELSE LET e == Head(es)
             t == e.fail_time_unix
             n == Len(e.token) \div 2
         IN  <<t \div 16777216, (t \div 65536) % 256, (t \div 256) % 256, t % 256,
               n \div 256, n % 256>>
             \o a2b_hex(e.token) \o EncodeEmitted(Tail(es))

\* C20: the encodings of the records emitted so far followed by the retained
\* buffer are exactly the bytes fed so far, and the retained buffer has at
\* most 6 bytes or fewer than 6 plus the token length it declares
C20_BufferConservation ==
    /\ EncodeEmitted(emitted) \o buff = SubSeq(wire, 1, pos)
    /\ \/ Len(buff) <= 6
       \/ Len(buff) < 6 + (buff[5] * 256 + buff[6])

\* C20 witness: after several chunks a record was emitted and a tail of
\* more than 6 bytes, short of its declared token, is retained
C20_Witness ==
    /\ chunks >= 2 /\ Len(emitted) >= 1 /\ Len(buff) > 6
    /\ EncodeEmitted(emitted) \o buff = SubSeq(wire, 1, pos)

====
